---- MODULE Spec2Model ----
(***************************************************************************)
(* RpcClient (src/zed/src/rpc_client.rs): the client-side multiplexer of   *)
(* a request / response / subscription protocol over one connection.       *)
(*                                                                         *)
(* One Client Handle (its operations take &mut self, so at most one of     *)
(* request / send / subscribe runs at a time), the detached Reader Task    *)
(* spawned by RpcClient::new, the callers' receivers, and a server that    *)
(* may write any FromServer message.                                       *)
(***************************************************************************)
EXTENDS Integers, Sequences, FiniteSets, TLC

\* ------------------------------------------------------------------ bounds
\* Number of ids one Client Handle allocates in a run (ids 0 .. MaxOps-1).
MaxOps == 2
\* Number of FromServer messages read_message yields in a run.
MaxRead == 2
\* Capacity of a subscription's channel: mpsc::channel(256) in the source,
\* scaled down so that a full channel is reachable.
SubCap == 1
\* Capacity of a request's channel: mpsc::channel(1).
ReqCap == 1

\* Option::None of FromServer.request_id and of FromServer.variant.
NoId == -1
NoVariant == "None"
\* The shapes of proto::from_server::Variant: the response shape the request
\* type expects, and the event shape the subscription type expects.
Variants == {"Response", "Event"}

Ids == 0 .. (MaxOps - 1)

\* A proto::FromServer { request_id, variant } is [seq, request_id, variant];
\* seq is the position of the message on the wire (not a field of the message).
NoMessage == [seq |-> 0, request_id |-> NoId, variant |-> NoVariant]
NoTx == [id |-> NoId, oneshot |-> FALSE]

VARIABLES
    next_message_id,    \* RpcClient.next_message_id
    response_channels,  \* RpcClient.response_channels: id -> oneshot flag
                        \* (the Sender of entry id is the sender of chan[id])
    drop_tx,            \* TRUE while RpcClient._drop_tx (the handle) is alive
    stream,             \* envelopes written to the write half: <<[id, kind]>>
    chan,               \* id -> [buf, rx]: the mpsc channel created for id
    kind,               \* id -> which operation allocated it
    op,                 \* the operation the handle is running: [pc, id]
    result,             \* id -> what the operation returned to its caller
    response,           \* id -> the Variant a request received from rx.recv()
    pulled,             \* id -> the events a subscription's consumer pulled
    nread,              \* how many messages read_message has yielded
    readerPc,           \* position of the Reader Task
    message,            \* the message the Reader Task is handling
    tx,                 \* the (tx, oneshot) the Reader Task took out of the table
    readerResult,       \* what the Reader Task's future completed with
    log,                \* the warnings the Reader Task has logged
    lock                \* who holds the Mutex of response_channels

vars == <<next_message_id, response_channels, drop_tx, stream, chan, kind, op,
          result, response, pulled, nread, readerPc, message, tx,
          readerResult, log, lock>>

\* The variables of the handle's side and of the Reader Task's side.
handleVars == <<next_message_id, drop_tx, stream, kind, op, result, response>>
taskVars == <<nread, readerPc, message, tx, readerResult, log>>

\* What a step of the other side leaves alone.  The steps of Spec run from one
\* suspension point to the next: a table access takes and releases the lock
\* inside one step, so that none of them changes lock.  (LockSpec below takes
\* the table accesses apart.)
clientVars == <<handleVars, lock>>
readerVars == <<taskVars, lock>>

\* ----------------------------------------------------------------- helpers
EmptyTable == [i \in {} |-> FALSE]

\* HashMap::insert
Insert(table, id, oneshot) ==
    [k \in DOMAIN table \cup {id} |-> IF k = id THEN oneshot ELSE table[k]]

\* A lookup that leaves the entry where it is (HashMap::get).
RemoveNothing(table, id) == table

\* HashMap::remove
Remove(table, id) == [k \in DOMAIN table \ {id} |-> table[k]]

\* The table lives in an Arc shared by the handle and the Reader Task: it is
\* destroyed, and every Sender in it dropped, when both are gone.
TableAfter(table, handleAlive, readerAlive) ==
    IF handleAlive \/ readerAlive THEN table ELSE EmptyTable

\* mpsc::channel(1) for a request, mpsc::channel(256) for a subscription.
Capacity(id) == IF kind[id] = "request" THEN ReqCap ELSE SubCap

\* The one Sender of chan[id] is either in the table or in the Reader Task's
\* hands (between its remove and the end of its delivery).
SenderAlive(id) == id \in DOMAIN response_channels \/ tx.id = id

\* Any shape is accepted as the response.
Response_from_variant_any(v) == v # NoVariant

\* T::Response::from_variant / T::Event::from_variant
Response_from_variant(v) == v = "Response"
Event_from_variant(v) == v = "Event"

\* ------------------------------------------------------------------- Init
Init ==
    /\ next_message_id = 0
    /\ response_channels = EmptyTable
    /\ drop_tx = TRUE
    /\ stream = <<>>
    /\ chan = [i \in Ids |-> [buf |-> <<>>, rx |-> "none"]]
    /\ kind = [i \in Ids |-> "none"]
    /\ op = [pc |-> "idle", id |-> NoId]
    /\ result = [i \in Ids |-> "none"]
    /\ response = [i \in Ids |-> NoMessage]
    /\ pulled = [i \in Ids |-> <<>>]
    /\ nread = 0
    /\ readerPc = "reading"
    /\ message = NoMessage
    /\ tx = NoTx
    /\ readerResult = "running"
    /\ log = <<>>
    /\ lock = "free"

\* request with the insert of line 97 left out: the envelope is written for an
\* id that was never registered.
RequestStartUnregistered ==
    /\ drop_tx /\ op.pc = "idle" /\ next_message_id < MaxOps
    /\ LET message_id == next_message_id IN
        /\ next_message_id' = next_message_id + 1
        /\ chan' = [chan EXCEPT ![message_id] = [buf |-> <<>>, rx |-> "alive"]]
        /\ kind' = [kind EXCEPT ![message_id] = "request"]
        /\ op' = [pc |-> "request_write", id |-> message_id]
    /\ UNCHANGED <<response_channels, drop_tx, stream, result, response, pulled>>
    /\ UNCHANGED readerVars

\* ------------------------------------------------- Client Handle operations
\* request, lines 94-97: allocate the id, create the channel, insert the entry.
RequestStart ==
    /\ drop_tx /\ op.pc = "idle" /\ next_message_id < MaxOps
    /\ LET message_id == next_message_id IN
        /\ next_message_id' = next_message_id + 1
        /\ chan' = [chan EXCEPT ![message_id] = [buf |-> <<>>, rx |-> "alive"]]
        /\ kind' = [kind EXCEPT ![message_id] = "request"]
        /\ response_channels' = Insert(response_channels, message_id, TRUE)
        /\ op' = [pc |-> "request_write", id |-> message_id]
    /\ UNCHANGED <<drop_tx, stream, result, response, pulled>>
    /\ UNCHANGED readerVars

\* request that takes its entry back out of the table when the write fails.
RequestWriteRollback ==
    /\ op.pc = "request_write"
    /\ \E ok \in BOOLEAN :
        IF ok
        THEN /\ stream' = Append(stream, [id |-> op.id, kind |-> "request"])
             /\ op' = [op EXCEPT !.pc = "request_recv"]
             /\ UNCHANGED <<result, chan, response_channels>>
        ELSE /\ result' = [result EXCEPT ![op.id] = "WriteError"]
             /\ chan' = [chan EXCEPT ![op.id] = [buf |-> <<>>, rx |-> "dropped"]]
             /\ response_channels' = Remove(response_channels, op.id)
             /\ op' = [pc |-> "idle", id |-> NoId]
             /\ UNCHANGED stream
    /\ UNCHANGED <<next_message_id, drop_tx, kind, response, pulled>>
    /\ UNCHANGED readerVars

\* request, lines 98-103: write_message(..).await?
RequestWrite ==
    /\ op.pc = "request_write"
    /\ \E ok \in BOOLEAN :
        IF ok
        THEN /\ stream' = Append(stream, [id |-> op.id, kind |-> "request"])
             /\ op' = [op EXCEPT !.pc = "request_recv"]
             /\ UNCHANGED <<result, chan>>
        ELSE /\ result' = [result EXCEPT ![op.id] = "WriteError"]
             /\ chan' = [chan EXCEPT ![op.id] = [buf |-> <<>>, rx |-> "dropped"]]
             /\ op' = [pc |-> "idle", id |-> NoId]
             /\ UNCHANGED stream
    /\ UNCHANGED <<next_message_id, response_channels, drop_tx, kind, response,
                   pulled>>
    /\ UNCHANGED readerVars

\* request, lines 104-109: rx.recv().await.expect(..), then from_variant.
RequestRecv ==
    /\ op.pc = "request_recv"
    /\ chan[op.id].buf # <<>> \/ ~SenderAlive(op.id)
    /\ IF chan[op.id].buf # <<>>
       THEN LET m == Head(chan[op.id].buf) IN
            /\ response' = [response EXCEPT ![op.id] = m]
            /\ result' = [result EXCEPT ![op.id] =
                   IF Response_from_variant(m.variant)
                   THEN "Ok" ELSE "ProtocolMismatch"]
       ELSE /\ result' = [result EXCEPT ![op.id] = "Panic"]
            /\ UNCHANGED response
    /\ chan' = [chan EXCEPT ![op.id] = [buf |-> <<>>, rx |-> "dropped"]]
    /\ op' = [pc |-> "idle", id |-> NoId]
    /\ UNCHANGED <<next_message_id, response_channels, drop_tx, stream, kind,
                   pulled>>
    /\ UNCHANGED readerVars

\* send that registers an entry for its id, as request does.
SendStartRegisters ==
    /\ drop_tx /\ op.pc = "idle" /\ next_message_id < MaxOps
    /\ LET message_id == next_message_id IN
        /\ next_message_id' = next_message_id + 1
        /\ chan' = [chan EXCEPT ![message_id] = [buf |-> <<>>, rx |-> "alive"]]
        /\ kind' = [kind EXCEPT ![message_id] = "send"]
        /\ response_channels' = Insert(response_channels, message_id, TRUE)
        /\ op' = [pc |-> "send_write", id |-> message_id]
    /\ UNCHANGED <<drop_tx, stream, result, response, pulled>>
    /\ UNCHANGED readerVars

\* send that takes the current id and leaves the counter where it is.
SendStartNoIncrement ==
    /\ drop_tx /\ op.pc = "idle" /\ next_message_id < MaxOps
    /\ kind' = [kind EXCEPT ![next_message_id] = "send"]
    /\ op' = [pc |-> "send_write", id |-> next_message_id]
    /\ UNCHANGED <<next_message_id, response_channels, drop_tx, stream, chan,
                   result, response, pulled>>
    /\ UNCHANGED readerVars

\* send, lines 113-114.
SendStart ==
    /\ drop_tx /\ op.pc = "idle" /\ next_message_id < MaxOps
    /\ LET message_id == next_message_id IN
        /\ next_message_id' = next_message_id + 1
        /\ kind' = [kind EXCEPT ![message_id] = "send"]
        /\ op' = [pc |-> "send_write", id |-> message_id]
    /\ UNCHANGED <<response_channels, drop_tx, stream, chan, result, response,
                   pulled>>
    /\ UNCHANGED readerVars

\* send, lines 115-121.
SendWrite ==
    /\ op.pc = "send_write"
    /\ \E ok \in BOOLEAN :
        IF ok
        THEN /\ stream' = Append(stream, [id |-> op.id, kind |-> "send"])
             /\ result' = [result EXCEPT ![op.id] = "Ok"]
        ELSE /\ result' = [result EXCEPT ![op.id] = "WriteError"]
             /\ UNCHANGED stream
    /\ op' = [pc |-> "idle", id |-> NoId]
    /\ UNCHANGED <<next_message_id, response_channels, drop_tx, chan, kind,
                   response, pulled>>
    /\ UNCHANGED readerVars

\* subscribe, lines 128-133.
SubscribeStart ==
    /\ drop_tx /\ op.pc = "idle" /\ next_message_id < MaxOps
    /\ LET message_id == next_message_id IN
        /\ next_message_id' = next_message_id + 1
        /\ chan' = [chan EXCEPT ![message_id] = [buf |-> <<>>, rx |-> "alive"]]
        /\ kind' = [kind EXCEPT ![message_id] = "subscribe"]
        /\ response_channels' = Insert(response_channels, message_id, FALSE)
        /\ op' = [pc |-> "subscribe_write", id |-> message_id]
    /\ UNCHANGED <<drop_tx, stream, result, response, pulled>>
    /\ UNCHANGED readerVars

\* subscribe, lines 134-144: on success the caller gets the stream over rx.
SubscribeWrite ==
    /\ op.pc = "subscribe_write"
    /\ \E ok \in BOOLEAN :
        IF ok
        THEN /\ stream' = Append(stream, [id |-> op.id, kind |-> "subscribe"])
             /\ result' = [result EXCEPT ![op.id] = "Stream"]
             /\ UNCHANGED chan
        ELSE /\ result' = [result EXCEPT ![op.id] = "WriteError"]
             /\ chan' = [chan EXCEPT ![op.id] = [buf |-> <<>>, rx |-> "dropped"]]
             /\ UNCHANGED stream
    /\ op' = [pc |-> "idle", id |-> NoId]
    /\ UNCHANGED <<next_message_id, response_channels, drop_tx, kind, response,
                   pulled>>
    /\ UNCHANGED readerVars

\* The caller drops the future of a request that awaits its reply (line 106),
\* and rx with it.  (Dropping an operation's future during its write leaves
\* the handle, the table and the channel as a failed write does.)
Cancel ==
    /\ op.pc = "request_recv"
    /\ result' = [result EXCEPT ![op.id] = "Cancelled"]
    /\ chan' = [chan EXCEPT ![op.id] = [buf |-> <<>>, rx |-> "dropped"]]
    /\ op' = [pc |-> "idle", id |-> NoId]
    /\ UNCHANGED <<next_message_id, response_channels, drop_tx, stream, kind,
                   response, pulled>>
    /\ UNCHANGED readerVars

\* The Client Handle is destroyed: _drop_tx and its Arc of the table go.
\* No operation is running then (each one borrows the handle).
DropClient ==
    /\ drop_tx /\ op.pc = "idle"
    /\ drop_tx' = FALSE
    /\ response_channels' = TableAfter(response_channels, FALSE, readerPc # "done")
    /\ UNCHANGED <<next_message_id, stream, chan, kind, op, result, response,
                   pulled>>
    /\ UNCHANGED readerVars

\* ------------------------------------------------ subscription consumers
\* The consumer polls the stream returned by subscribe: the next buffered
\* event, or the end of the sequence once the channel is closed and empty.
Pull(id) ==
    /\ kind[id] = "subscribe" /\ result[id] = "Stream" /\ chan[id].rx = "alive"
    /\ chan[id].buf # <<>> \/ ~SenderAlive(id)
    /\ IF chan[id].buf # <<>>
       THEN /\ pulled' = [pulled EXCEPT ![id] = Append(@, Head(chan[id].buf))]
            /\ chan' = [chan EXCEPT ![id].buf = Tail(@)]
       ELSE /\ chan' = [chan EXCEPT ![id].rx = "ended"]
            /\ UNCHANGED pulled
    /\ UNCHANGED <<next_message_id, response_channels, drop_tx, stream, kind,
                   op, result, response>>
    /\ UNCHANGED readerVars

\* The consumer drops the stream, and rx with it.
DropStream(id) ==
    /\ kind[id] = "subscribe" /\ result[id] = "Stream" /\ chan[id].rx = "alive"
    /\ chan' = [chan EXCEPT ![id] = [buf |-> <<>>, rx |-> "dropped"]]
    /\ UNCHANGED <<next_message_id, response_channels, drop_tx, stream, kind,
                   op, result, response, pulled>>
    /\ UNCHANGED readerVars

\* --------------------------------------------------------- the Reader Task
\* log::warn!, lines 74-77 and 81; seq is the position on the wire of the
\* message the warning is about.
Warning(text, request_id, seq) == [warn |-> text, id |-> request_id, seq |-> seq]

\* A lookup under a neighbouring key.
EntryKeyWrong(request_id) == (request_id + 1) % MaxOps

\* The key the Reader Task looks up: line 64, remove(&request_id).
EntryKey(request_id) == request_id

\* The lookup is done for every message that has a request_id, payload or not.
ReadMessageUnchecked(rid, v) ==
    /\ readerPc = "reading" /\ nread < MaxRead
    /\ nread' = nread + 1
    /\ IF rid = NoId
       THEN UNCHANGED <<message, tx, response_channels, readerPc, log>>
       ELSE IF EntryKey(rid) \in DOMAIN response_channels
       THEN /\ message' = [seq |-> nread + 1, request_id |-> rid, variant |-> v]
            /\ tx' = [id |-> EntryKey(rid),
                      oneshot |-> response_channels[EntryKey(rid)]]
            /\ response_channels' = Remove(response_channels, EntryKey(rid))
            /\ readerPc' = "sending"
            /\ UNCHANGED log
       ELSE /\ log' = Append(log, Warning("unknown request id", rid, nread + 1))
            /\ UNCHANGED <<message, tx, response_channels, readerPc>>
    /\ UNCHANGED <<readerResult, chan, pulled>>
    /\ UNCHANGED clientVars

\* lines 54-65 and 73-83: the read wins the race and yields the message
\* {rid, v}; then the checks of the message and the table lookup, which have
\* no suspension point.
ReadMessage(rid, v) ==
    /\ readerPc = "reading" /\ nread < MaxRead
    /\ nread' = nread + 1
    /\ IF v = NoVariant
       THEN /\ log' = Append(log, Warning("no content", NoId, nread + 1))
            /\ UNCHANGED <<message, tx, response_channels, readerPc>>
       ELSE IF rid = NoId
       THEN UNCHANGED <<message, tx, response_channels, readerPc, log>>
       ELSE IF EntryKey(rid) \in DOMAIN response_channels
       THEN /\ message' = [seq |-> nread + 1, request_id |-> rid, variant |-> v]
            /\ tx' = [id |-> EntryKey(rid),
                      oneshot |-> response_channels[EntryKey(rid)]]
            /\ response_channels' = Remove(response_channels, EntryKey(rid))
            /\ readerPc' = "sending"
            /\ UNCHANGED log
       ELSE /\ log' = Append(log, Warning("unknown request id", rid, nread + 1))
            /\ UNCHANGED <<message, tx, response_channels, readerPc>>
    /\ UNCHANGED <<readerResult, chan, pulled>>
    /\ UNCHANGED clientVars

\* read_message yields whatever the server wrote: the server is not trusted.
ReaderRead ==
    \E rid \in Ids \cup {NoId}, v \in Variants \cup {NoVariant} :
        ReadMessage(rid, v)

\* lines 56, 60: read_message fails (transport error or end of stream) and
\* `?` ends the task with the error.
ReaderReadError ==
    /\ readerPc = "reading"
    /\ readerPc' = "done"
    /\ readerResult' = "Err"
    /\ response_channels' = TableAfter(response_channels, drop_tx, FALSE)
    /\ UNCHANGED <<nread, message, tx, chan, pulled, log>>
    /\ UNCHANGED clientVars

\* The loop awaits read_message alone: client_dropped is never polled.
ReaderClientDroppedNever == FALSE /\ UNCHANGED vars

\* A value is put on the shutdown channel.
DropTxSentUnit == TRUE

\* Whether a value has been sent on the shutdown channel: _drop_tx (lines 22,
\* 31, 37) is only held, no statement of the source sends on it.
DropTxSent == FALSE

\* lines 48-51, 60, 84: drop_rx.recv() resolves with the value sent, or with
\* None once _drop_tx is gone; the assertion of line 49 panics on a value.
ReaderClientDropped ==
    /\ readerPc = "reading" /\ (DropTxSent \/ ~drop_tx)
    /\ readerPc' = "done"
    /\ readerResult' = IF DropTxSent THEN "Panic" ELSE "Ok"
    /\ response_channels' = TableAfter(response_channels, drop_tx, FALSE)
    /\ UNCHANGED <<nread, message, tx, chan, pulled, log>>
    /\ UNCHANGED clientVars

\* The entry is kept whatever the flag says.
KeepsEntryAlways(oneshot) == TRUE

\* The entry is never put back.
KeepsEntryNever(oneshot) == FALSE

\* line 67: `if !oneshot`, whether a delivered-to entry goes back into the table.
KeepsEntry(oneshot) == ~oneshot

\* A delivery that does not wait for room: the message is dropped when the
\* channel is full (try_send).
ReaderSendDrops ==
    /\ readerPc = "sending"
    /\ IF chan[tx.id].rx = "alive"
       THEN /\ chan' = [chan EXCEPT ![tx.id].buf =
                            IF Len(@) < Capacity(tx.id) THEN Append(@, message)
                            ELSE @]
            /\ IF KeepsEntry(tx.oneshot)
               THEN /\ readerPc' = "reinsert"
                    /\ UNCHANGED <<tx, message>>
               ELSE /\ readerPc' = "reading"
                    /\ tx' = NoTx
                    /\ message' = NoMessage
       ELSE /\ readerPc' = "reading"
            /\ tx' = NoTx
            /\ message' = NoMessage
            /\ UNCHANGED chan
    /\ UNCHANGED <<nread, readerResult, response_channels, pulled, log>>
    /\ UNCHANGED clientVars

\* lines 66-67: tx.send(variant).await, suspended while the channel is full
\* and its receiver alive; Err when the receiver is gone.
ReaderSend ==
    /\ readerPc = "sending"
    /\ chan[tx.id].rx # "alive" \/ Len(chan[tx.id].buf) < Capacity(tx.id)
    /\ IF chan[tx.id].rx = "alive"
       THEN /\ chan' = [chan EXCEPT ![tx.id].buf = Append(@, message)]
            /\ IF KeepsEntry(tx.oneshot)
               THEN /\ readerPc' = "reinsert"
                    /\ UNCHANGED <<tx, message>>
               ELSE /\ readerPc' = "reading"
                    /\ tx' = NoTx
                    /\ message' = NoMessage
       ELSE /\ readerPc' = "reading"
            /\ tx' = NoTx
            /\ message' = NoMessage
            /\ UNCHANGED chan
    /\ UNCHANGED <<nread, readerResult, response_channels, pulled, log>>
    /\ UNCHANGED clientVars

\* lines 68-70: the multi-shot entry goes back into the table.
ReaderReinsert ==
    /\ readerPc = "reinsert"
    /\ response_channels' = Insert(response_channels, tx.id, FALSE)
    /\ readerPc' = "reading"
    /\ tx' = NoTx
    /\ message' = NoMessage
    /\ UNCHANGED <<nread, readerResult, chan, pulled, log>>
    /\ UNCHANGED clientVars

ReaderStep ==
    \/ ReaderClientDropped
    \/ ReaderSend
    \/ ReaderReinsert

ClientStep ==
    \/ RequestWrite
    \/ RequestRecv
    \/ SendWrite
    \/ SubscribeWrite

Next ==
    \/ RequestStart
    \/ SendStart
    \/ SubscribeStart
    \/ ClientStep
    \/ Cancel
    \/ DropClient
    \/ \E id \in Ids : Pull(id)
    \/ \E id \in Ids : DropStream(id)
    \/ ReaderRead
    \/ ReaderStep
    \/ ReaderReadError

Spec == Init /\ [][Next]_vars

\* The executor keeps polling the Reader Task and the running operation while
\* they can make progress; callers, consumers, the server and the transport
\* owe nothing.
FairSpec == Spec /\ WF_vars(ReaderStep) /\ WF_vars(ClientStep)

\* ------------------------------------------------- the lock, step by step
\* LockSpec is the same program with every access to response_channels taken
\* apart into the call of lock(), which waits while the Mutex is held, and
\* the insert or remove, at the end of whose statement the guard is dropped.
\* Whatever does not touch the table is the step of Spec.

\* request, lines 94-96: the id and the channel; then line 97 calls lock().
RequestCall ==
    /\ drop_tx /\ op.pc = "idle" /\ next_message_id < MaxOps
    /\ LET message_id == next_message_id IN
        /\ next_message_id' = next_message_id + 1
        /\ chan' = [chan EXCEPT ![message_id] = [buf |-> <<>>, rx |-> "alive"]]
        /\ kind' = [kind EXCEPT ![message_id] = "request"]
        /\ op' = [pc |-> "request_lock", id |-> message_id]
    /\ UNCHANGED <<response_channels, drop_tx, stream, result, response, pulled>>
    /\ UNCHANGED readerVars

\* subscribe, lines 128-130; then line 131 calls lock().
SubscribeCall ==
    /\ drop_tx /\ op.pc = "idle" /\ next_message_id < MaxOps
    /\ LET message_id == next_message_id IN
        /\ next_message_id' = next_message_id + 1
        /\ chan' = [chan EXCEPT ![message_id] = [buf |-> <<>>, rx |-> "alive"]]
        /\ kind' = [kind EXCEPT ![message_id] = "subscribe"]
        /\ op' = [pc |-> "subscribe_lock", id |-> message_id]
    /\ UNCHANGED <<response_channels, drop_tx, stream, result, response, pulled>>
    /\ UNCHANGED readerVars

\* lines 97 and 131: self.response_channels.lock() returns the guard.
HandleLock ==
    /\ op.pc \in {"request_lock", "subscribe_lock"}
    /\ lock = "free"
    /\ lock' = "handle"
    /\ op' = [op EXCEPT !.pc = IF op.pc = "request_lock"
                               THEN "request_insert" ELSE "subscribe_insert"]
    /\ UNCHANGED <<next_message_id, response_channels, drop_tx, stream, chan,
                   kind, result, response, pulled>>
    /\ UNCHANGED taskVars

\* lines 97 and 131-133: insert(message_id, (tx, oneshot)); the guard is a
\* temporary of the statement and is dropped at its end, before the write.
HandleInsert ==
    /\ op.pc \in {"request_insert", "subscribe_insert"}
    /\ response_channels' =
            Insert(response_channels, op.id, op.pc = "request_insert")
    /\ lock' = "free"
    /\ op' = [op EXCEPT !.pc = IF op.pc = "request_insert"
                               THEN "request_write" ELSE "subscribe_write"]
    /\ UNCHANGED <<next_message_id, drop_tx, stream, chan, kind, result,
                   response, pulled>>
    /\ UNCHANGED taskVars

\* lines 54-63 and 81: the read wins the race; a message with a payload and a
\* request_id goes on to the lookup of line 64.
ReceiveMessage(rid, v) ==
    /\ readerPc = "reading" /\ nread < MaxRead
    /\ nread' = nread + 1
    /\ IF v = NoVariant
       THEN /\ log' = Append(log, Warning("no content", NoId, nread + 1))
            /\ UNCHANGED <<message, readerPc>>
       ELSE IF rid = NoId
       THEN UNCHANGED <<message, readerPc, log>>
       ELSE /\ message' = [seq |-> nread + 1, request_id |-> rid, variant |-> v]
            /\ readerPc' = "remove_lock"
            /\ UNCHANGED log
    /\ UNCHANGED <<tx, response_channels, readerResult, chan, pulled>>
    /\ UNCHANGED clientVars

ReaderReceive ==
    \E rid \in Ids \cup {NoId}, v \in Variants \cup {NoVariant} :
        ReceiveMessage(rid, v)

\* lines 64 and 68: response_channels.lock() returns the guard.
ReaderLock ==
    /\ readerPc \in {"remove_lock", "reinsert"}
    /\ lock = "free"
    /\ lock' = "reader"
    /\ readerPc' = IF readerPc = "remove_lock" THEN "remove" ELSE "reinsert_locked"
    /\ UNCHANGED <<nread, message, tx, readerResult, log, response_channels,
                   chan, pulled>>
    /\ UNCHANGED handleVars

\* The guard of line 64 lives on in the `if let` body, across tx.send().await.
ReaderRemoveKeepsLock ==
    /\ readerPc = "remove"
    /\ IF EntryKey(message.request_id) \in DOMAIN response_channels
       THEN /\ tx' = [id |-> EntryKey(message.request_id),
                      oneshot |-> response_channels[EntryKey(message.request_id)]]
            /\ response_channels' =
                    Remove(response_channels, EntryKey(message.request_id))
            /\ readerPc' = "sending"
            /\ UNCHANGED <<message, log, lock>>
       ELSE /\ log' = Append(log,
                        Warning("unknown request id", message.request_id, message.seq))
            /\ readerPc' = "reading"
            /\ message' = NoMessage
            /\ lock' = "free"
            /\ UNCHANGED <<tx, response_channels>>
    /\ UNCHANGED <<nread, readerResult, chan, pulled>>
    /\ UNCHANGED handleVars

\* lines 64-65 and 73-77: `let channel = ...lock().remove(&request_id);` the
\* guard is dropped at the end of the let statement, before tx.send().await.
ReaderRemove ==
    /\ readerPc = "remove"
    /\ lock' = "free"
    /\ IF EntryKey(message.request_id) \in DOMAIN response_channels
       THEN /\ tx' = [id |-> EntryKey(message.request_id),
                      oneshot |-> response_channels[EntryKey(message.request_id)]]
            /\ response_channels' =
                    Remove(response_channels, EntryKey(message.request_id))
            /\ readerPc' = "sending"
            /\ UNCHANGED <<message, log>>
       ELSE /\ log' = Append(log,
                        Warning("unknown request id", message.request_id, message.seq))
            /\ readerPc' = "reading"
            /\ message' = NoMessage
            /\ UNCHANGED <<tx, response_channels>>
    /\ UNCHANGED <<nread, readerResult, chan, pulled>>
    /\ UNCHANGED handleVars

\* lines 68-70: insert(request_id, (tx, false)); the guard is dropped at the
\* end of the statement.
ReaderInsert ==
    /\ readerPc = "reinsert_locked"
    /\ response_channels' = Insert(response_channels, tx.id, FALSE)
    /\ lock' = "free"
    /\ readerPc' = "reading"
    /\ tx' = NoTx
    /\ message' = NoMessage
    /\ UNCHANGED <<nread, readerResult, chan, pulled, log>>
    /\ UNCHANGED handleVars

LockNext ==
    \/ RequestCall
    \/ SubscribeCall
    \/ HandleLock
    \/ HandleInsert
    \/ SendStart
    \/ ClientStep
    \/ Cancel
    \/ DropClient
    \/ \E id \in Ids : Pull(id)
    \/ \E id \in Ids : DropStream(id)
    \/ ReaderReceive
    \/ ReaderLock
    \/ ReaderRemove
    \/ ReaderInsert
    \/ ReaderSend
    \/ ReaderClientDropped
    \/ ReaderReadError

LockSpec == Init /\ [][LockNext]_vars

\* ------------------------------------------------------------ properties
InTable(id) == id \in DOMAIN response_channels

\* The entry under id, as a sequence of at most one flag.
Entry(id) == IF InTable(id) THEN <<response_channels[id]>> ELSE <<>>

\* The Arc'd table exists while the handle or the Reader Task does.
TableAlive == drop_tx \/ readerPc # "done"

\* Every message a caller holds or can still receive carries the caller's id.
RoutingInv ==
    \A i \in Ids :
        /\ \A k \in 1 .. Len(chan[i].buf) : chan[i].buf[k].request_id = i
        /\ \A k \in 1 .. Len(pulled[i]) : pulled[i][k].request_id = i
        /\ response[i] # NoMessage => response[i].request_id = i

\* A Reader Task step that handles a message with request_id rid leaves the
\* channel and the entry of every other id alone.
RoutingFrame ==
    /\ \A rid \in Ids \cup {NoId}, v \in Variants \cup {NoVariant} :
        ReadMessage(rid, v) =>
            \A j \in Ids \ {rid} : chan'[j] = chan[j] /\ Entry(j)' = Entry(j)
    /\ (ReaderSend \/ ReaderReinsert) =>
            \A j \in Ids \ {message.request_id} :
                chan'[j] = chan[j] /\ Entry(j)' = Entry(j)

\* C1: every payload a caller receives was carried by a message whose
\* request_id is the caller's id, and handling a reply for id i changes neither
\* the channel nor the table entry of any id j # i.
Routing == []RoutingInv /\ [][RoutingFrame]_vars

\* A subscription (id 0) and a request (id 1) are outstanding together; the
\* first message went to the request and the second to the subscription.
RoutingWitness ==
    /\ kind[0] = "subscribe" /\ kind[1] = "request"
    /\ result[1] = "Ok" /\ response[1].seq = 1
    /\ Len(pulled[0]) = 1 /\ pulled[0][1].seq = 2

\* C2: a request that is waiting for its reply when the Reader Task ends on a
\* transport error or end of stream eventually returns a connection-closed
\* error (unless its caller gives up first).
RequestGetsConnectionClosed ==
    \A i \in Ids :
        (/\ op.pc = "request_recv" /\ op.id = i
         /\ readerPc = "done" /\ readerResult = "Err"
         /\ InTable(i))
            ~> (result[i] \in {"ConnectionClosed", "Cancelled"})

\* C3: a message whose request_id has no entry is discarded with a warning:
\* the Reader Task stays in its loop, the table, the channels and the callers
\* are unchanged; and what a request receives carries its own id.
UnknownIdStep ==
    \A rid \in Ids, v \in Variants :
        (ReadMessage(rid, v) /\ ~InTable(rid)) =>
            /\ UNCHANGED <<response_channels, chan, readerPc, readerResult,
                           message, tx, result, response, pulled>>
            /\ log' = Append(log, Warning("unknown request id", rid, nread + 1))

UnknownIdDiscarded ==
    /\ [][UnknownIdStep]_vars
    /\ [](\A i \in Ids : response[i] # NoMessage => response[i].request_id = i)

\* The first message carried id 1, which nobody had issued, and was discarded;
\* the second carried the request's id 0 and is what the request returned.
UnknownIdWitness ==
    /\ kind[0] = "request" /\ result[0] = "Ok"
    /\ response[0].seq = 2 /\ response[0].request_id = 0
    /\ log = <<Warning("unknown request id", 1, 1)>>
    /\ readerPc = "reading"

\* A reply has been delivered into request id's channel.
Delivered(id) ==
    kind[id] = "request" /\ (chan[id].buf # <<>> \/ response[id] # NoMessage)

SingleShotInv ==
    \A i \in Ids :
        /\ kind[i] = "request" =>
            /\ Len(chan[i].buf) <= 1
            /\ response[i] # NoMessage => chan[i].buf = <<>>
        /\ Delivered(i) => ~InTable(i) /\ tx.id # i

SecondReplyStep ==
    \A i \in Ids, v \in Variants :
        (ReadMessage(i, v) /\ Delivered(i)) =>
            /\ UNCHANGED <<response_channels, chan, readerPc, response, result>>
            /\ log' = Append(log, Warning("unknown request id", i, nread + 1))

\* C4: once a reply is delivered to a request, its id is out of the table, a
\* second reply with that id is discarded as unknown, and the request receives
\* at most one value.
SingleShot == []SingleShotInv /\ [][SecondReplyStep]_vars

\* The request got the first reply; the second one with the same id was
\* discarded as unknown.
SingleShotWitness ==
    /\ kind[0] = "request" /\ result[0] = "Ok" /\ response[0].seq = 1
    /\ log = <<Warning("unknown request id", 0, 2)>>

\* C5: with the handle dropped and the Reader Task waiting for a message, the
\* task terminates unless another message arrives first.
DropEndsReader ==
    \A n \in 0 .. MaxRead :
        (~drop_tx /\ readerPc = "reading" /\ nread = n)
            ~> (readerPc = "done" \/ nread > n)

\* The Reader Task ended with success having read nothing at all.
DropEndsReaderWitness ==
    ~drop_tx /\ readerPc = "done" /\ readerResult = "Ok" /\ nread = 0

\* The subscription with this id is open: its stream was or will be returned
\* and has neither been dropped nor reached its end.
Open(id) == kind[id] = "subscribe" /\ chan[id].rx = "alive"

\* The subscription's entry is gone for good: its stream was dropped and the
\* Reader Task has removed the entry.
Retired(id) ==
    kind[id] = "subscribe" /\ chan[id].rx = "dropped" /\ ~InTable(id) /\ tx.id # id

MultiShotInv ==
    \A i \in Ids : (Open(i) /\ TableAlive) => (InTable(i) \/ tx.id = i)

MultiShotStep ==
    /\ (ReaderReinsert /\ Open(tx.id)) => tx.id \in DOMAIN response_channels'
    /\ (ReaderSend /\ chan[tx.id].rx # "alive") =>
            /\ readerPc' = "reading" /\ readerResult' = readerResult
            /\ tx.id \notin DOMAIN response_channels'
            /\ tx' = NoTx /\ chan' = chan
    /\ \A i \in Ids : Retired(i) => Retired(i)'
    /\ \A i \in Ids, v \in Variants :
        (ReadMessage(i, v) /\ Retired(i)) =>
            /\ readerPc' = "reading" /\ readerResult' = readerResult
            /\ log' = Append(log, Warning("unknown request id", i, nread + 1))

\* C6: an open subscription keeps its entry across successful deliveries (it
\* is out of the table only while the Reader Task delivers to it); once its
\* stream is dropped the next event makes the Reader Task remove the entry
\* without failing or retrying, and later events are discarded as unknown.
MultiShot == []MultiShotInv /\ [][MultiShotStep]_vars

\* The stream of subscription 0 was dropped; the first event then removed the
\* entry, the second was discarded as unknown, and the Reader Task reads on.
MultiShotWitness ==
    /\ kind[0] = "subscribe" /\ result[0] = "Stream" /\ chan[0].rx = "dropped"
    /\ ~InTable(0) /\ nread = 2
    /\ log = <<Warning("unknown request id", 0, 2)>>
    /\ readerPc = "reading" /\ readerResult = "running"

\* The caller of this id is pending: a request suspended in rx.recv(), or a
\* subscription whose stream was returned and is still held.
Pending(id) ==
    /\ chan[id].rx = "alive"
    /\ \/ op.pc = "request_recv" /\ op.id = id
       \/ result[id] = "Stream"

\* C7: once the Reader Task has ended on a transport error or end of stream,
\* the receiver of every pending caller is closed (no Sender of its channel is
\* left, so that it yields its buffered events and then the end), the handle
\* being alive or not.
ReaderFailureClosesReceivers ==
    (readerPc = "done" /\ readerResult = "Err") =>
        \A i \in Ids : Pending(i) => ~SenderAlive(i)

\* C8: once the handle is destroyed the Reader Task terminates, whatever it
\* was doing.
DropTerminatesReader == (~drop_tx) ~> (readerPc = "done")

ProtocolMismatchInv ==
    \A i \in Ids :
        /\ response[i] # NoMessage =>
            /\ result[i] = IF response[i].variant = "Response"
                           THEN "Ok" ELSE "ProtocolMismatch"
            /\ ~InTable(i)
        /\ result[i] = "ProtocolMismatch" =>
            kind[i] = "request" /\ response[i] # NoMessage

ProtocolMismatchStep ==
    (response' # response) =>
        /\ UNCHANGED <<response_channels, readerVars, pulled>>
        /\ \A j \in Ids \ {op.id} : chan'[j] = chan[j] /\ result'[j] = result[j]

\* C9: a request whose reply has another shape than its response type returns
\* ProtocolMismatch, its entry is out of the table all the same, and the step
\* touches neither the Reader Task nor any other caller.
ProtocolMismatch == []ProtocolMismatchInv /\ [][ProtocolMismatchStep]_vars

\* Request 1 failed with ProtocolMismatch while subscription 0 stays open
\* with its entry in place and the Reader Task keeps reading.
ProtocolMismatchWitness ==
    /\ result[1] = "ProtocolMismatch" /\ response[1].variant = "Event"
    /\ Open(0) /\ InTable(0)
    /\ readerPc = "reading" /\ readerResult = "running"

\* A request or subscription with this id awaits delivery: its receiver is
\* alive and, for a request, the reply is not in its channel yet.
Awaiting(id) ==
    /\ chan[id].rx = "alive"
    /\ kind[id] = "request" => chan[id].buf = <<>>

\* C10 as stated: an id is a key of the table iff a request or subscription
\* with that id is awaiting delivery.
TableIffAwaiting == \A i \in Ids : InTable(i) <=> Awaiting(i)

\* C10 as amended: while the table exists, every id awaiting delivery is a key
\* of the table or in the Reader Task's hands in the middle of a delivery; and
\* every key is an id that request or subscribe allocated (its caller may have
\* gone since).
AwaitingInTable ==
    /\ \A i \in Ids : (Awaiting(i) /\ TableAlive) => (InTable(i) \/ tx.id = i)
    /\ \A i \in DOMAIN response_channels :
        i < next_message_id /\ kind[i] \in {"request", "subscribe"}

\* Request 0 was abandoned and its entry is still there, while the Reader Task
\* is suspended delivering to subscription 1, whose entry it holds.
AwaitingInTableWitness ==
    /\ kind[0] = "request" /\ result[0] = "Cancelled" /\ InTable(0)
    /\ Open(1) /\ readerPc = "sending" /\ tx.id = 1 /\ ~InTable(1)
    /\ Len(chan[1].buf) = SubCap

\* The entry of id has been registered: it is in the table, or the Reader Task
\* took it out of the table (it holds it, has delivered through it, or found
\* its receiver gone), or the table was destroyed with it.
Registered(id) ==
    \/ InTable(id) \/ tx.id = id
    \/ chan[id].buf # <<>> \/ response[id] # NoMessage \/ pulled[id] # <<>>
    \/ chan[id].rx \in {"dropped", "ended"}
    \/ ~TableAlive

\* The step that makes the envelope of a request or subscribe visible to the
\* server finds the entry of its id in the table, or already looked up by the
\* Reader Task (whose delivery is then in the caller's channel).
RegisterBeforeWriteStep ==
    (stream' # stream /\ kind[op.id] # "send") =>
        /\ stream' = Append(stream, [id |-> op.id, kind |-> kind[op.id]])
        /\ InTable(op.id) \/ tx.id = op.id \/ chan[op.id].buf # <<>>

\* C11: request and subscribe insert their entry before they write their
\* envelope: when the envelope of id i becomes visible to the server the entry
\* of i is registered, and it has been registered for every envelope of a
\* request or subscribe on the wire.
RegisterBeforeWrite ==
    /\ [][RegisterBeforeWriteStep]_vars
    /\ [](\A k \in 1 .. Len(stream) :
            stream[k].kind # "send" => Registered(stream[k].id))

\* The envelopes of subscription 0 and request 1 are on the wire; the reply of
\* request 1 has been looked up and is about to be delivered, the entry of
\* subscription 0 is in the table.
RegisterBeforeWriteWitness ==
    /\ stream = <<[id |-> 0, kind |-> "subscribe"], [id |-> 1, kind |-> "request"]>>
    /\ InTable(0) /\ readerPc = "sending" /\ tx.id = 1 /\ op.pc = "request_recv"

\* The ids handed out so far are exactly 0 .. next_message_id - 1; the ids on
\* the wire are in call order.
IdAllocationInv ==
    /\ \A i \in Ids : kind[i] # "none" <=> i < next_message_id
    /\ \A i \in DOMAIN response_channels : i < next_message_id
    /\ op.pc # "idle" => op.id = next_message_id - 1
    /\ \A k \in 1 .. Len(stream) : \A l \in 1 .. Len(stream) :
            k < l => stream[k].id < stream[l].id

\* A call of send, request or subscribe takes the current value of the counter
\* as its id and adds 1; nothing else moves the counter (a failing write does
\* not), and an id keeps the operation it was handed to.
IdAllocationStep ==
    /\ (op.pc = "idle" /\ op'.pc # "idle") =>
            /\ op'.id = next_message_id
            /\ kind[next_message_id] = "none"
            /\ kind'[next_message_id] \in {"request", "send", "subscribe"}
            /\ next_message_id' = next_message_id + 1
    /\ ~(op.pc = "idle" /\ op'.pc # "idle") =>
            next_message_id' = next_message_id
    /\ \A i \in Ids : kind[i] # "none" => kind'[i] = kind[i]

\* C12: next_message_id starts at 0; every call of send, request or subscribe
\* takes its current value as id and increases it by exactly 1, also when the
\* write that follows fails; ids are strictly increasing in call order, never
\* handed out twice, and every key of the table is below next_message_id.
IdAllocation ==
    /\ next_message_id = 0
    /\ []IdAllocationInv
    /\ [][IdAllocationStep]_vars

\* The write of send 0 failed; the request called next got id 1 all the same.
IdAllocationWitness ==
    /\ kind[0] = "send" /\ result[0] = "WriteError"
    /\ kind[1] = "request" /\ op = [pc |-> "request_recv", id |-> 1]
    /\ next_message_id = 2 /\ DOMAIN response_channels = {1}

\* An id allocated by send has no entry, no channel and no receiver, ever.
SendUnregisteredInv ==
    \A i \in Ids :
        kind[i] = "send" =>
            /\ ~InTable(i) /\ tx.id # i
            /\ chan[i] = [buf |-> <<>>, rx |-> "none"]
            /\ response[i] = NoMessage /\ pulled[i] = <<>>

\* The steps of send leave the table alone, and a message that carries the id
\* of a send is discarded as unknown, nothing being delivered to anybody.
SendUnregisteredStep ==
    /\ (op.pc # op'.pc /\ "send_write" \in {op.pc, op'.pc}) =>
            UNCHANGED <<response_channels, chan, response, pulled>>
    /\ \A i \in Ids, v \in Variants :
        (ReadMessage(i, v) /\ kind[i] = "send") =>
            /\ UNCHANGED <<response_channels, chan, response, result, pulled,
                           readerPc, readerResult, tx>>
            /\ log' = Append(log, Warning("unknown request id", i, nread + 1))

\* C13: send allocates an id and writes one envelope but leaves the table
\* unchanged; a message from the server that carries an id allocated by send
\* is discarded as unknown and is delivered to no request or subscription.
SendUnregistered == []SendUnregisteredInv /\ [][SendUnregisteredStep]_vars

\* send 0 was written; the server answered it while request 1 was waiting:
\* the answer was discarded as unknown and request 1 still waits.
SendUnregisteredWitness ==
    /\ kind[0] = "send" /\ result[0] = "Ok"
    /\ stream = <<[id |-> 0, kind |-> "send"], [id |-> 1, kind |-> "request"]>>
    /\ log = <<Warning("unknown request id", 0, 1)>>
    /\ op = [pc |-> "request_recv", id |-> 1] /\ chan[1].buf = <<>>
    /\ DOMAIN response_channels = {1}

\* The message the Reader Task is delivering to id and has not put into the
\* channel yet.
InFlight(id) ==
    IF readerPc = "sending" /\ tx.id = id THEN <<message>> ELSE <<>>

\* The events of subscription id in the order its consumer gets them: those
\* pulled, then those buffered, then the one being delivered.
Events(id) == pulled[id] \o chan[id].buf \o InFlight(id)

SubscriptionFifoInv ==
    \A i \in Ids :
        kind[i] = "subscribe" =>
            \A k \in 1 .. Len(Events(i)) :
                /\ Events(i)[k].request_id = i
                /\ \A l \in 1 .. Len(Events(i)) :
                        k < l => Events(i)[k].seq < Events(i)[l].seq

SubscriptionFifoStep ==
    \A i \in Ids :
        /\ (Open(i) /\ Open(i)') =>
            \/ Events(i)' = Events(i)
            \/ \E v \in Variants :
                /\ ReadMessage(i, v)
                /\ Events(i)' = Append(Events(i),
                        [seq |-> nread + 1, request_id |-> i, variant |-> v])
        /\ \A v \in Variants :
            (ReadMessage(i, v) /\ Open(i)) => Len(Events(i)') = Len(Events(i)) + 1
        /\ \/ pulled'[i] = pulled[i]
           \/ /\ chan[i].buf # <<>>
              /\ pulled'[i] = Append(pulled[i], Head(chan[i].buf))

HandleSuspended ==
    op.pc \in {"request_write", "request_recv", "send_write", "subscribe_write"}
ReaderSuspended == readerPc \in {"reading", "sending"}

LockScopeInv ==
    /\ lock = "handle" => op.pc \in {"request_insert", "subscribe_insert"}
    /\ lock = "reader" => readerPc \in {"remove", "reinsert_locked"}
    /\ HandleSuspended => lock # "handle"
    /\ ReaderSuspended => lock # "reader"
    /\ (ReaderSuspended /\ op.pc \in {"request_lock", "subscribe_lock"}) =>
            ENABLED HandleLock
    /\ (HandleSuspended /\ readerPc \in {"remove_lock", "reinsert"}) =>
            ENABLED ReaderLock

LockScopeStep ==
    /\ (lock = "handle" /\ op' # op) =>
            /\ lock' = "free"
            /\ DOMAIN response_channels' = DOMAIN response_channels \cup {op.id}
    /\ (lock = "reader" /\ readerPc' # readerPc) =>
            /\ lock' = "free"
            /\ \/ DOMAIN response_channels' =
                        DOMAIN response_channels \ {message.request_id}
               \/ DOMAIN response_channels' =
                        DOMAIN response_channels \cup {message.request_id}

\* C15: the lock of the table is held for a single insert or remove: whoever
\* holds it is at that insert or remove and nowhere else, its next step does
\* that one access and releases the lock, and a task suspended on the
\* transport or on a channel never keeps the other task from taking the lock.
LockScope == []LockScopeInv /\ [][LockScopeStep]_vars

\* The Reader Task is suspended sending into the full channel of subscription
\* 0 while request 1 holds the lock for its insert.
LockScopeWitness ==
    /\ readerPc = "sending" /\ tx.id = 0 /\ kind[0] = "subscribe"
    /\ chan[0].rx = "alive" /\ Len(chan[0].buf) = SubCap
    /\ lock = "handle" /\ op = [pc |-> "request_insert", id |-> 1]

UnroutableStep ==
    \A rid \in Ids \cup {NoId}, v \in Variants \cup {NoVariant} :
        (ReadMessage(rid, v) /\ (rid = NoId \/ v = NoVariant)) =>
            /\ UNCHANGED <<response_channels, chan, response, result, pulled,
                           tx, message, readerResult>>
            /\ readerPc' = "reading"
            /\ nread' = nread + 1

\* C16: a message without request_id or without payload is discarded: the
\* table is unchanged, no channel and no caller gets anything, and the Reader
\* Task is back at reading the next message.
UnroutableDiscarded == [][UnroutableStep]_vars

\* Subscription 0 and request 1 wait with their entries in place and nothing
\* delivered, after two messages: the first left no trace at all (it had a
\* payload and no request_id), the second had no payload.
UnroutableDiscardedWitness ==
    /\ nread = 2 /\ log = <<Warning("no content", NoId, 2)>>
    /\ Open(0) /\ chan[0].buf = <<>> /\ pulled[0] = <<>>
    /\ op = [pc |-> "request_recv", id |-> 1] /\ chan[1].buf = <<>>
    /\ DOMAIN response_channels = {0, 1}
    /\ readerPc = "reading" /\ readerResult = "running"

\* The entry the Reader Task has taken out is not in the table.
ReinsertInv == tx.id # NoId => ~InTable(tx.id) /\ tx.id < next_message_id

ReinsertStep ==
    /\ \A i \in Ids, v \in Variants :
        (ReadMessage(i, v) /\ InTable(i)) =>
            /\ i \notin DOMAIN response_channels'
            /\ tx' = [id |-> i, oneshot |-> response_channels[i]]
    /\ \A i \in Ids :
        (~InTable(i) /\ i \in DOMAIN response_channels') =>
            \/ /\ op.pc = "idle" /\ op'.id = i /\ i = next_message_id
               /\ tx.id # i
            \/ /\ readerPc = "reinsert" /\ tx = [id |-> i, oneshot |-> FALSE]
               /\ response_channels'[i] = FALSE
               /\ \/ chan[i].rx = "dropped"
                  \/ \E k \in 1 .. Len(Events(i)) : Events(i)[k] = message
    /\ \A i \in Ids :
        (InTable(i) /\ i \in DOMAIN response_channels') =>
            response_channels'[i] = response_channels[i]

\* C17: a lookup takes the entry out of the table; an id comes into the table
\* only as the fresh id of a request or subscribe, or as the multi-shot entry
\* the Reader Task puts back after it delivered; in both cases the table holds
\* nothing under that id, so no entry is ever overwritten.
Reinsert == []ReinsertInv /\ [][ReinsertStep]_vars

\* The Reader Task has delivered to subscription 0 and is about to put its
\* entry back, while request 1 has inserted its own entry in between.
ReinsertWitness ==
    /\ readerPc = "reinsert" /\ tx = [id |-> 0, oneshot |-> FALSE]
    /\ op = [pc |-> "request_write", id |-> 1]
    /\ DOMAIN response_channels = {1}

\* A request or subscribe whose write failed has returned, its receiver is
\* dropped, it got nothing and its envelope is not on the wire.
FailedWriteInv ==
    \A i \in Ids :
        (result[i] = "WriteError" /\ kind[i] # "send") =>
            /\ op.id # i /\ chan[i].rx = "dropped"
            /\ response[i] = NoMessage /\ pulled[i] = <<>>
            /\ \A k \in 1 .. Len(stream) : stream[k].id # i

FailedWriteStep ==
    \A i \in Ids :
        /\ (result[i] # "WriteError" /\ result'[i] = "WriteError"
                /\ kind[i] # "send") =>
            /\ op.id = i /\ op.pc \in {"request_write", "subscribe_write"}
            /\ op'.pc = "idle"
            /\ UNCHANGED response_channels
        /\ (result[i] = "WriteError" /\ InTable(i)
                /\ i \notin DOMAIN response_channels') =>
            \/ \E v \in Variants : ReadMessage(i, v)
            \/ ~TableAlive'

\* C18: when the write of a request or subscribe fails the operation returns
\* the error at once and leaves the table as it is: the entry it inserted
\* stays, with its receiver dropped, until a message with its id is looked up
\* (or the table itself is destroyed).
FailedWrite == []FailedWriteInv /\ [][FailedWriteStep]_vars

\* The write of request 0 failed and its entry is still in the table after
\* request 1 was called, answered and has returned.
FailedWriteWitness ==
    /\ kind[0] = "request" /\ result[0] = "WriteError" /\ InTable(0)
    /\ kind[1] = "request" /\ result[1] = "Ok" /\ op.pc = "idle"

\* The Reader Task is suspended in tx.send(): the channel is full and its
\* receiver alive.
Blocked ==
    /\ readerPc = "sending" /\ chan[tx.id].rx = "alive"
    /\ Len(chan[tx.id].buf) >= Capacity(tx.id)

OneAtATimeInv ==
    /\ Blocked => kind[tx.id] = "subscribe" /\ Len(chan[tx.id].buf) = SubCap
    /\ readerPc = "reading" <=> (tx = NoTx /\ message = NoMessage
                                    /\ readerResult = "running")

OneAtATimeStep ==
    /\ nread' # nread => readerPc = "reading"
    /\ Blocked =>
        /\ nread' = nread /\ tx' = tx /\ message' = message
        /\ \A j \in Ids : Len(chan'[j].buf) <= Len(chan[j].buf)
    /\ (Blocked /\ ~Blocked') =>
        \/ chan'[tx.id].rx = "dropped"
        \/ pulled'[tx.id] = Append(pulled[tx.id], Head(chan[tx.id].buf))

\* C19: the Reader Task reads the next message only when it is through with
\* the current one; while it is suspended delivering into a full subscription
\* channel nothing is read and nothing is delivered to anybody, and it gets
\* on only when that subscription's consumer pulls an event or its receiver is
\* dropped.
OneAtATime == []OneAtATimeInv /\ [][OneAtATimeStep]_vars

\* The Reader Task is suspended on the full channel of subscription 0 while
\* request 1 waits for its reply.
OneAtATimeWitness ==
    /\ Blocked /\ tx.id = 0 /\ result[0] = "Stream"
    /\ op = [pc |-> "request_recv", id |-> 1] /\ chan[1].buf = <<>>
    /\ InTable(1) /\ nread = 2

\* C20: the assertion of the shutdown wait never fails: no value is ever on
\* the shutdown channel, the wait resolves (with None) only once the handle's
\* sender is destroyed, and so the Reader Task never ends as ClientDropped
\* while the handle is alive.
ShutdownAssertion ==
    /\ readerResult # "Panic"
    /\ readerResult = "Ok" => ~drop_tx
    /\ (drop_tx /\ readerPc = "reading") => ~ENABLED ReaderClientDropped

\* The handle was dropped while request 0's entry was still in the table; the
\* Reader Task, having read two messages before, took the ClientDropped branch
\* and ended with Ok.
ShutdownAssertionWitness ==
    /\ ~drop_tx /\ readerPc = "done" /\ readerResult = "Ok"
    /\ nread = 2 /\ kind[0] = "request" /\ result[0] = "Cancelled"

====
